---- MODULE Spec2Model ----
(***************************************************************************)
(* LST_Calculator: the QGIS plugin's pipeline calculate_lst               *)
(* (src/lst_plugin.py).  A run loads Band 10, evaluates the TOA stage and *)
(* the BT stage through raster_calculation, styles the BT layer and adds  *)
(* it to the project; any exception is caught by calculate_lst's handler. *)
(* The file system, the raster calculator, the statistics provider and    *)
(* the renderer are the environment: their outcomes are chosen            *)
(* nondeterministically.                                                   *)
(***************************************************************************)
EXTENDS Integers, Sequences, FiniteSets, TLC

VARIABLES
    pc,             \* position of the run: idle, cleanup, validate, engine, reload, style, register, done
    stage,          \* the raster_calculation in progress: "TOA" or "BT"
    runs,           \* number of calculate_lst calls started
    band10_path,    \* the argument of the current calculate_lst call
    band10_layer,   \* local of calculate_lst
    toa_layer,      \* local of calculate_lst
    bt_layer,       \* local of calculate_lst
    fs,             \* output directory: output name -> file content
    locked,         \* output files another program keeps open or read-only
    osLocks,        \* the platform refuses to delete a file a layer keeps open
    project,        \* QgsProject.instance(): sequence of registered layers
    pushedCritical, \* messageBar().pushCritical calls in the current run
    pushedSuccess,  \* messageBar().pushSuccess calls in the current run
    lastError,      \* the exception the handler of the current run caught
    engineCalls,    \* processCalculation calls in the current run, per stage
    calc,           \* per stage, the QgsRasterCalculator built in the current run, with its result
    staleAtInvoke,  \* a file was at the output path when processCalculation was last called
    rendererItems,  \* the color ramp item list last handed to the renderer
    styled,         \* style_thermal_layer completed in the current run
    fsAtStart,      \* fs when the current run started
    projectAtStart, \* project when the current run started
    prev,           \* summary of the previous completed run
    toaPixel,       \* a TOA pixel value in units of 0.000001
    btOutcome       \* what evaluating the BT expression on toaPixel does

vars == <<pc, stage, runs, band10_path, band10_layer, toa_layer, bt_layer, fs,
          locked, osLocks, project, pushedCritical, pushedSuccess, lastError,
          engineCalls, calc, staleAtInvoke, rendererItems, styled, fsAtStart,
          projectAtStart, prev, toaPixel, btOutcome>>

----------------------------------------------------------------------------
(* Bounds *)

MaxRuns == 2
MaxCode == 5
MaxToaMicro == 60

----------------------------------------------------------------------------
(* Files and layers *)

Stages == {"TOA", "BT"}

OutputNames == {"TOA_Radiance", "BrightnessTemp"}

InputPaths == {"sceneA.tif", "sceneB.tif", "broken.tif"}

NoFile == [kind |-> "absent", band |-> "", of |-> ""]

Garbage == [kind |-> "garbage", band |-> "", of |-> ""]

StaleRaster == [kind |-> "raster", band |-> "stale", of |-> "stale"]

Raster(band, of) == [kind |-> "raster", band |-> band, of |-> of]

\* What is stored at a path the file dialog can return.
InputFile(path) ==
    IF path = "broken.tif" THEN Garbage ELSE Raster("B10", path)

\* os.path.join(output_dir, f"{output_name}.tif")
output_path(output_name) ==
    IF output_name = "TOA_Radiance" THEN "home/TOA_Radiance.tif"
    ELSE "home/BrightnessTemp.tif"

NoLayer == [source |-> "", name |-> "", valid |-> FALSE, content |-> NoFile]

\* QgsRasterLayer(path, name): valid only if the file opens as a raster.
QgsRasterLayer(path, name, file) ==
    [source |-> path, name |-> name, valid |-> (file.kind = "raster"), content |-> file]

NoError == [msg |-> "", path |-> "", code |-> 0, detail |-> ""]

Error(msg, path, code, detail) ==
    [msg |-> msg, path |-> path, code |-> code, detail |-> detail]

NoCalc == [formula |-> "", output |-> "", entries |-> <<>>, result |-> -1]

NoRun == [input |-> "", ok |-> FALSE, error |-> NoError, content |-> NoFile]

----------------------------------------------------------------------------
(* Helpers of the pipeline *)

\* create_raster_entry(layer, prefix)
create_raster_entry(layer, prefix) ==
    [ref |-> IF prefix = "b10" THEN "b10@1" ELSE "toa@1",
     raster |-> layer,
     bandNumber |-> 1]

\* calculate_toa: the arguments it passes to raster_calculation (ml, al as set in calculate_lst)
calculate_toa(band_layer) ==
    [formula |-> "(0.0003342 * 1.0 * \"b10@1\") + 0.1",
     entries |-> <<create_raster_entry(band_layer, "b10")>>,
     output_name |-> "TOA_Radiance"]

calculate_bt_from_band10(layer) ==
    [formula |-> "(1321.08 / ln( (774.89 / (\"toa@1\" + 0.000001) + 1 )) ) - 273.15",
     entries |-> <<create_raster_entry(band10_layer, "toa")>>,
     output_name |-> "BrightnessTemp"]

\* calculate_bt: the arguments it passes to raster_calculation
calculate_bt(layer) ==
    [formula |-> "(1321.08 / ln( (774.89 / (\"toa@1\" + 0.000001) + 1 )) ) - 273.15",
     entries |-> <<create_raster_entry(layer, "toa")>>,
     output_name |-> "BrightnessTemp"]

\* The raster_calculation call of the stage in progress.
StageCall ==
    IF stage = "TOA" THEN calculate_toa(band10_layer) ELSE calculate_bt(toa_layer)

error_map_shifted(result) ==
    CASE result = 1 -> "Invalid formula syntax"
      [] result = 2 -> "Calculation error (e.g., division by zero)"
      [] result = 3 -> "GDAL internal error"
      [] result = 4 -> "Missing input layers"
      [] OTHER -> "Unknown error"

\* error_map.get(result, 'Unknown error')
error_map(result) ==
    CASE result = 1 -> "Missing input layers"
      [] result = 2 -> "Invalid formula syntax"
      [] result = 3 -> "Calculation error (e.g., division by zero)"
      [] result = 4 -> "GDAL internal error"
      [] OTHER -> "Unknown error"

\* The layers that keep a file of the output directory open.
HeldByProject == {output_path(n) : n \in {m \in OutputNames :
                    \E i \in 1..Len(project) : project[i].source = output_path(m)}}

\* os.remove(output_path) raises PermissionError
RemoveRefused(name) ==
    name \in locked \/ (osLocks /\ output_path(name) \in HeldByProject)

ExceptLogOnly(e) ==
    /\ pc' = "done"
    /\ lastError' = e
    /\ pushedCritical' = pushedCritical

\* except Exception as e: pushCritical("Error", str(e)); logMessage(...)
Except(e) ==
    /\ pc' = "done"
    /\ lastError' = e
    /\ pushedCritical' = pushedCritical + 1

\* What the run that just ended did.
Summary ==
    [input |-> band10_path, ok |-> (pushedSuccess > 0), error |-> lastError,
     content |-> bt_layer.content]

----------------------------------------------------------------------------
(* The color ramp of style_thermal_layer *)

Item(value, color, label) == [value |-> value, color |-> color, label |-> label]

items_unordered ==
    << Item(20, <<0, 0, 255>>, "20C"),
       Item(40, <<0, 255, 255>>, "30C"),
       Item(30, <<0, 255, 0>>, "40C"),
       Item(50, <<255, 255, 0>>, "50C"),
       Item(60, <<255, 165, 0>>, "60C"),
       Item(70, <<255, 0, 0>>, "70C") >>

\* items = [QgsColorRampShader.ColorRampItem(20, ...), ...]
items ==
    << Item(20, <<0, 0, 255>>, "20C"),
       Item(30, <<0, 255, 255>>, "30C"),
       Item(40, <<0, 255, 0>>, "40C"),
       Item(50, <<255, 255, 0>>, "50C"),
       Item(60, <<255, 165, 0>>, "60C"),
       Item(70, <<255, 0, 0>>, "70C") >>

----------------------------------------------------------------------------
(* The BT expression on one pixel, in units of 0.000001 *)

EpsMicro == 1

K1Micro == 774890000

BtDivisorNoEps(toa) == toa

\* "toa@1" + 0.000001
BtDivisor(toa) == toa + EpsMicro

\* the sign of (K1 / ("toa@1" + 0.000001) + 1) = (K1 + d) / d, for d # 0
BtLogArgPositive(toa) ==
    LET d == BtDivisor(toa)
    IN  (d > 0 /\ K1Micro + d > 0) \/ (d < 0 /\ K1Micro + d < 0)

\* what evaluating K2 / ln(K1 / (toa + eps) + 1) - 273.15 on the pixel does
EvalBT(toa) ==
    IF BtDivisor(toa) = 0 THEN "division by zero"
    ELSE IF ~BtLogArgPositive(toa) THEN "log domain"
    ELSE "ok"

----------------------------------------------------------------------------
(* Initial states *)

NoCalls == [s \in Stages |-> 0]

NoCalcs == [s \in Stages |-> NoCalc]

Init ==
    /\ pc = "idle"
    /\ stage = "TOA"
    /\ runs = 0
    /\ band10_path = ""
    /\ band10_layer = NoLayer
    /\ toa_layer = NoLayer
    /\ bt_layer = NoLayer
    /\ fs \in [OutputNames -> {NoFile, StaleRaster, Garbage}]
    /\ locked \in SUBSET {n \in OutputNames : fs[n] # NoFile}
    /\ osLocks \in BOOLEAN
    /\ project = <<>>
    /\ pushedCritical = 0
    /\ pushedSuccess = 0
    /\ lastError = NoError
    /\ engineCalls = NoCalls
    /\ calc = NoCalcs
    /\ staleAtInvoke = FALSE
    /\ rendererItems = <<>>
    /\ styled = FALSE
    /\ fsAtStart = fs
    /\ projectAtStart = <<>>
    /\ prev = NoRun
    /\ toaPixel = 0
    /\ btOutcome = "none"

\* One TOA pixel at or near zero, to be put through the BT expression.
InitBT ==
    /\ pc = "pixel"
    /\ stage = "BT"
    /\ runs = 0
    /\ band10_path = ""
    /\ band10_layer = NoLayer
    /\ toa_layer = NoLayer
    /\ bt_layer = NoLayer
    /\ fs = [n \in OutputNames |-> NoFile]
    /\ locked = {}
    /\ osLocks = FALSE
    /\ project = <<>>
    /\ pushedCritical = 0
    /\ pushedSuccess = 0
    /\ lastError = NoError
    /\ engineCalls = NoCalls
    /\ calc = NoCalcs
    /\ staleAtInvoke = FALSE
    /\ rendererItems = <<>>
    /\ styled = FALSE
    /\ fsAtStart = fs
    /\ projectAtStart = <<>>
    /\ prev = NoRun
    /\ toaPixel \in (0 - MaxToaMicro)..MaxToaMicro
    /\ btOutcome = "none"

----------------------------------------------------------------------------
(* Operations *)

env == <<locked, osLocks, toaPixel, btOutcome>>

\* run: the file dialog returns band_path; calculate_lst is entered unless it is empty
Run(band_path) ==
    /\ pc \in {"idle", "done"}
    /\ runs < MaxRuns
    /\ band_path # ""
    /\ pc' = "load"
    /\ runs' = runs + 1
    /\ band10_path' = band_path
    /\ prev' = IF pc = "done" THEN Summary ELSE prev
    /\ stage' = "TOA"
    /\ band10_layer' = NoLayer
    /\ toa_layer' = NoLayer
    /\ bt_layer' = NoLayer
    /\ pushedCritical' = 0
    /\ pushedSuccess' = 0
    /\ lastError' = NoError
    /\ engineCalls' = NoCalls
    /\ calc' = NoCalcs
    /\ staleAtInvoke' = FALSE
    /\ styled' = FALSE
    /\ fsAtStart' = fs
    /\ projectAtStart' = project
    /\ UNCHANGED <<fs, project, rendererItems, env>>

LoadBand10Unchecked ==
    /\ pc = "load"
    /\ band10_layer' = QgsRasterLayer(band10_path, "B10_RAW", InputFile(band10_path))
    /\ pc' = "cleanup"
    /\ UNCHANGED <<lastError, pushedCritical>>
    /\ UNCHANGED <<stage, runs, band10_path, toa_layer, bt_layer, fs, project,
                   pushedSuccess, engineCalls, calc, staleAtInvoke, rendererItems,
                   styled, fsAtStart, projectAtStart, prev, env>>

\* calculate_lst, step 1: load and validate Band 10
LoadBand10 ==
    /\ pc = "load"
    /\ LET layer == QgsRasterLayer(band10_path, "B10_RAW", InputFile(band10_path))
       IN  /\ band10_layer' = layer
           /\ IF ~layer.valid
              THEN Except(Error("Invalid Band 10 file. Check file format and path.",
                                band10_path, -1, ""))
              ELSE pc' = "cleanup" /\ UNCHANGED <<lastError, pushedCritical>>
    /\ UNCHANGED <<stage, runs, band10_path, toa_layer, bt_layer, fs, project,
                   pushedSuccess, engineCalls, calc, staleAtInvoke, rendererItems,
                   styled, fsAtStart, projectAtStart, prev, env>>

CleanupIgnoringRefusal ==
    /\ pc = "cleanup"
    /\ LET name == StageCall.output_name
       IN  /\ fs' = IF fs[name] # NoFile /\ ~RemoveRefused(name)
                    THEN [fs EXCEPT ![name] = NoFile] ELSE fs
           /\ pc' = "validate"
           /\ UNCHANGED <<lastError, pushedCritical>>
    /\ UNCHANGED <<stage, runs, band10_path, band10_layer, toa_layer, bt_layer,
                   project, pushedSuccess, engineCalls, calc, staleAtInvoke,
                   rendererItems, styled, fsAtStart, projectAtStart, prev, env>>

\* raster_calculation: cleanup of an existing file at the output path
Cleanup ==
    /\ pc = "cleanup"
    /\ LET name == StageCall.output_name
       IN  IF fs[name] # NoFile
           THEN IF RemoveRefused(name)
                THEN /\ Except(Error("File in use", output_path(name), -1,
                                     "Close other programs."))
                     /\ fs' = fs
                ELSE /\ fs' = [fs EXCEPT ![name] = NoFile]
                     /\ pc' = "validate"
                     /\ UNCHANGED <<lastError, pushedCritical>>
           ELSE /\ fs' = fs
                /\ pc' = "validate"
                /\ UNCHANGED <<lastError, pushedCritical>>
    /\ UNCHANGED <<stage, runs, band10_path, band10_layer, toa_layer, bt_layer,
                   project, pushedSuccess, engineCalls, calc, staleAtInvoke,
                   rendererItems, styled, fsAtStart, projectAtStart, prev, env>>

\* raster_calculation: validation and statistics of the input entries
ValidateEntries ==
    /\ pc = "validate"
    /\ \E statsRaise \in BOOLEAN :
         LET entry == StageCall.entries[1]
         IN  IF ~entry.raster.valid
             THEN Except(Error("Invalid input layer", entry.raster.source, -1, ""))
             ELSE IF statsRaise
             THEN Except(Error("bandStatistics raised", entry.raster.source, -1, entry.ref))
             ELSE pc' = "engine" /\ UNCHANGED <<lastError, pushedCritical>>
    /\ UNCHANGED <<stage, runs, band10_path, band10_layer, toa_layer, bt_layer, fs,
                   project, pushedSuccess, engineCalls, calc, staleAtInvoke,
                   rendererItems, styled, fsAtStart, projectAtStart, prev, env>>

\* What the calculator leaves at the output path: nothing written, an unusable
\* file, or (only when it returns 0) the raster of the formula over the entries.
Written(call, effect) ==
    CASE effect = "nothing" -> fs[call.output_name]
      [] effect = "garbage" -> Garbage
      [] OTHER -> Raster(call.output_name, call.entries[1].raster.content.of)

\* raster_calculation: QgsRasterCalculator(...).processCalculation() and its result code
ProcessCalculation ==
    /\ pc = "engine"
    /\ \E result \in 0..MaxCode, effect \in {"nothing", "garbage", "raster"} :
         LET call == StageCall
         IN  /\ effect = "raster" => result = 0
             /\ engineCalls' = [engineCalls EXCEPT ![stage] = @ + 1]
             /\ staleAtInvoke' = (fs[call.output_name] # NoFile)
             /\ calc' = [calc EXCEPT ![stage] =
                           [formula |-> call.formula,
                            output |-> output_path(call.output_name),
                            entries |-> call.entries, result |-> result]]
             /\ fs' = [fs EXCEPT ![call.output_name] = Written(call, effect)]
             /\ IF result # 0
                THEN Except(Error("GDAL Error", output_path(call.output_name), result,
                                  error_map(result)))
                ELSE pc' = "reload" /\ UNCHANGED <<lastError, pushedCritical>>
    /\ UNCHANGED <<stage, runs, band10_path, band10_layer, toa_layer, bt_layer,
                   project, pushedSuccess, rendererItems, styled, fsAtStart,
                   projectAtStart, prev, env>>

\* return result_layer: to calculate_lst's toa_layer, then calculate_bt; or to bt_layer
Return(result_layer) ==
    IF stage = "TOA"
    THEN /\ toa_layer' = result_layer
         /\ stage' = "BT"
         /\ pc' = "cleanup"
         /\ UNCHANGED bt_layer
    ELSE /\ bt_layer' = result_layer
         /\ pc' = "style"
         /\ UNCHANGED <<toa_layer, stage>>

ReloadOutputUnchecked ==
    /\ pc = "reload"
    /\ LET name == StageCall.output_name
           result_layer == QgsRasterLayer(output_path(name), name, fs[name])
       IN  Return(result_layer) /\ UNCHANGED <<lastError, pushedCritical>>
    /\ UNCHANGED <<runs, band10_path, band10_layer, fs, project, pushedSuccess,
                   engineCalls, calc, staleAtInvoke, rendererItems, styled,
                   fsAtStart, projectAtStart, prev, env>>

\* raster_calculation: reload and validate the output, log its statistics, return it
ReloadOutput ==
    /\ pc = "reload"
    /\ \E statsRaise \in BOOLEAN :
         LET name == StageCall.output_name
             result_layer == QgsRasterLayer(output_path(name), name, fs[name])
         IN  IF ~result_layer.valid
             THEN /\ Except(Error("Failed to create output layer", output_path(name), -1, ""))
                  /\ UNCHANGED <<toa_layer, bt_layer, stage>>
             ELSE IF statsRaise
             THEN /\ Except(Error("bandStatistics raised", output_path(name), -1, name))
                  /\ UNCHANGED <<toa_layer, bt_layer, stage>>
             ELSE Return(result_layer) /\ UNCHANGED <<lastError, pushedCritical>>
    /\ UNCHANGED <<runs, band10_path, band10_layer, fs, project, pushedSuccess,
                   engineCalls, calc, staleAtInvoke, rendererItems, styled,
                   fsAtStart, projectAtStart, prev, env>>

\* style_thermal_layer(bt_layer)
StyleThermalLayer ==
    /\ pc = "style"
    /\ \E raises \in BOOLEAN :
         IF raises
         THEN /\ Except(Error("style_thermal_layer raised", bt_layer.source, -1, ""))
              /\ UNCHANGED <<rendererItems, styled>>
         ELSE /\ rendererItems' = items
              /\ styled' = TRUE
              /\ pc' = "register"
              /\ UNCHANGED <<lastError, pushedCritical>>
    /\ UNCHANGED <<stage, runs, band10_path, band10_layer, toa_layer, bt_layer, fs,
                   project, pushedSuccess, engineCalls, calc, staleAtInvoke,
                   fsAtStart, projectAtStart, prev, env>>

\* QgsProject.instance().addMapLayer(bt_layer); pushSuccess(...)
AddMapLayer ==
    /\ pc = "register"
    /\ project' = Append(project, bt_layer)
    /\ pushedSuccess' = pushedSuccess + 1
    /\ pc' = "done"
    /\ UNCHANGED <<stage, runs, band10_path, band10_layer, toa_layer, bt_layer, fs,
                   pushedCritical, lastError, engineCalls, calc, staleAtInvoke,
                   rendererItems, styled, fsAtStart, projectAtStart, prev, env>>

\* The BT expression applied to the pixel.
EvaluateBT ==
    /\ pc = "pixel"
    /\ btOutcome = "none"
    /\ btOutcome' = EvalBT(toaPixel)
    /\ UNCHANGED <<pc, stage, runs, band10_path, band10_layer, toa_layer, bt_layer, fs,
                   locked, osLocks, project, pushedCritical, pushedSuccess, lastError,
                   engineCalls, calc, staleAtInvoke, rendererItems, styled, fsAtStart,
                   projectAtStart, prev, toaPixel>>

Next ==
    \/ \E band_path \in InputPaths \cup {""} : Run(band_path)
    \/ LoadBand10
    \/ Cleanup
    \/ ValidateEntries
    \/ ProcessCalculation
    \/ ReloadOutput
    \/ StyleThermalLayer
    \/ AddMapLayer

Spec == Init /\ [][Next]_vars

NextBT == EvaluateBT

SpecBT == InitBT /\ [][NextBT]_vars

----------------------------------------------------------------------------
(* Properties *)

\* The layer raster_calculation returned for the stage in progress.
Returned == IF stage = "TOA" THEN toa_layer ELSE bt_layer

StrictlyIncreasing(seq) ==
    \A i \in 1..(Len(seq) - 1) : seq[i].value < seq[i + 1].value

\* C1: a run in which a step fails ends in the handler with exactly one critical
\* notification, no success message and no layer added to the project; a layer
\* is added only in a run whose two stages and styling succeeded.
C1_FailureCaughtOnce ==
    /\ pushedCritical <= 1
    /\ (pushedCritical = 1) = (lastError # NoError)
    /\ lastError # NoError =>
         /\ pc = "done"
         /\ pushedSuccess = 0
         /\ project = projectAtStart
    /\ pc = "done" => (lastError # NoError) # (pushedSuccess = 1)
    /\ project # projectAtStart =>
         /\ project = Append(projectAtStart, bt_layer)
         /\ lastError = NoError
         /\ \A s \in Stages : calc[s] # NoCalc /\ calc[s].result = 0
         /\ toa_layer.valid /\ bt_layer.valid
         /\ styled

C1_Witness ==
    /\ pc = "done"
    /\ runs = 2
    /\ prev.ok
    /\ stage = "BT"
    /\ lastError.msg = "GDAL Error"
    /\ Len(project) = 1

\* C2: the BT stage's engine call happens only after the TOA stage's call
\* returned 0 and its reloaded output was valid, its only entry is the TOA
\* stage's output layer, and the engine is called at most once per stage per run.
C2_StagesOrdered ==
    /\ \A s \in Stages : engineCalls[s] <= 1
    /\ \A s \in Stages : (engineCalls[s] = 1) = (calc[s] # NoCalc)
    /\ calc["BT"] # NoCalc =>
         /\ calc["TOA"] # NoCalc
         /\ calc["TOA"].result = 0
         /\ toa_layer.valid
         /\ toa_layer.source = output_path("TOA_Radiance")
         /\ toa_layer.content = Raster("TOA_Radiance", band10_path)
         /\ calc["BT"].entries =
              << [ref |-> "toa@1", raster |-> toa_layer, bandNumber |-> 1] >>
    /\ calc["TOA"] # NoCalc =>
         calc["TOA"].entries =
              << [ref |-> "b10@1", raster |-> band10_layer, bandNumber |-> 1] >>

C2_Witness ==
    /\ calc["BT"] # NoCalc
    /\ calc["BT"].result = 0
    /\ pc = "reload"

\* C3: a second run on the same input after a successful first run does not
\* fail on the files the first run left, and yields the same raster content.
C3_SecondRunOverwrites ==
    (pc = "done" /\ runs >= 2 /\ prev.ok /\ prev.input = band10_path) =>
        /\ lastError.msg # "File in use"
        /\ pushedSuccess = 1 => bt_layer.content = prev.content

\* C4: an existing output file that cannot be deleted raises the conflict error
\* naming its path and the engine is not called for that evaluation; whenever
\* the engine is called no file is at the output path.
C4_NoStaleFileAtInvoke ==
    /\ ~staleAtInvoke
    /\ pc \in {"validate", "engine"} => fs[StageCall.output_name] = NoFile
    /\ lastError.msg = "File in use" =>
         /\ pc = "done"
         /\ lastError.path = output_path(StageCall.output_name)
         /\ fs[StageCall.output_name] # NoFile
         /\ RemoveRefused(StageCall.output_name)
         /\ engineCalls[stage] = 0
         /\ calc[stage] = NoCalc
    /\ (pc = "done" /\ engineCalls[stage] = 0 /\ band10_layer.valid
          /\ fsAtStart[StageCall.output_name] # NoFile
          /\ RemoveRefused(StageCall.output_name)) =>
         lastError.msg = "File in use"

C4_Witness ==
    /\ pc = "done"
    /\ stage = "BT"
    /\ lastError.msg = "File in use"
    /\ lastError.path = "home/BrightnessTemp.tif"
    /\ "BrightnessTemp" \in locked

\* C5: an input that does not load as a valid raster ends the run with the
\* invalid-input error before any engine call, the output directory unchanged.
C5_InvalidInputAborts ==
    (pc \notin {"idle", "load"} /\ InputFile(band10_path).kind # "raster") =>
        /\ pc = "done"
        /\ lastError.msg = "Invalid Band 10 file. Check file format and path."
        /\ engineCalls = NoCalls
        /\ calc = NoCalcs
        /\ fs = fsAtStart
        /\ toa_layer = NoLayer /\ bt_layer = NoLayer

C5_Witness ==
    /\ pc = "done"
    /\ band10_path = "broken.tif"
    /\ ~band10_layer.valid
    /\ fs["TOA_Radiance"] = StaleRaster
    /\ locked = {}

C7_ReturnedLayerValid ==
    /\ toa_layer # NoLayer =>
         /\ toa_layer.valid
         /\ toa_layer.content = fs["TOA_Radiance"]
         /\ toa_layer.content.band = "TOA_Radiance"
    /\ bt_layer # NoLayer =>
         /\ bt_layer.valid
         /\ bt_layer.content = fs["BrightnessTemp"]
         /\ bt_layer.content.band = "BrightnessTemp"
    /\ \A s \in Stages : calc[s] # NoCalc => calc[s].entries[1].raster.valid
    /\ pc \in {"style", "register"} => bt_layer.valid
    /\ \A i \in 1..Len(project) : project[i].valid
    /\ lastError.msg = "Failed to create output layer" =>
         /\ calc[stage].result = 0
         /\ fs[StageCall.output_name].kind # "raster"
         /\ Returned = NoLayer

C7_Witness ==
    /\ pc = "done"
    /\ stage = "TOA"
    /\ calc["TOA"] # NoCalc
    /\ calc["TOA"].result = 0
    /\ lastError.msg = "Failed to create output layer"
    /\ toa_layer = NoLayer

\* C8: a failure of the band statistics computation is not raised and does not
\* change whether the run succeeds.
C8_StatsFailureNotRaised ==
    lastError.msg # "bandStatistics raised"

====
